---- MODULE Spec2Model ----
(***************************************************************************)
(* A model of tools/log_viewer.py: the hash-aliasing engine, the include / *)
(* exclude filter, the interactive viewport loop, the tail driver and      *)
(* main's dispatch and exit statuses.                                      *)
(*                                                                         *)
(* Text is modelled at the level the two hash regular expressions see it:  *)
(* a line is a sequence of units, a unit being a bracketed digit run       *)
(* "[ddddd]", an inline "HashCode=ddddd", a word of ordinary text or a     *)
(* line boundary character.  A digit run is the sequence of its digits, so *)
(* that runs differing by a leading zero are different values.             *)
(***************************************************************************)
EXTENDS Integers, Sequences, FiniteSets, TLC

VARIABLES
    \* preprocess_lines / make_line_processor
    lines,            \* the raw lines handed to the engine so far
    processed,        \* the transformed lines, in order
    aliases,          \* dict hash digit-string -> name
    names,            \* how many names the generator has yielded
    \* run_viewer
    records,          \* list[LineRecord]
    show_all,
    cursor,
    top,
    height,           \* what getmaxyx returned at the last render
    body_height,
    key,              \* the key getch returned last
    prev_key,         \* history: the key getch returned before that one
    current_line,     \* the local of the toggle branch
    vpc,              \* "render" | "getch" | "done" | "idle"
    \* main and stream_tail
    pc,
    arg_include,
    arg_exclude,
    arg_tail,
    arg_log_file,
    arg_output,
    file,             \* content of the input source, a sequence of units
    include_pattern,
    exclude_pattern,
    in_handle,        \* "none" | "open" | "closed"
    pos,              \* read position of the tail handle
    out_handle,       \* "none" | "stdout" | "open" | "closed"
    out_buf,          \* written to out_handle and not yet flushed
    sink,             \* the flushed content of the output destination
    raw,              \* the line readline returned last
    tail_processed,   \* stream_tail's "processed": raw through the transformer
    ret,              \* main's return value, -1 while it runs
    raised            \* the exception that left main uncaught, "" if none

engineVars == <<lines, processed, aliases, names>>
viewerVars == <<records, show_all, cursor, top, height, body_height, key,
                prev_key, current_line, vpc>>
progVars == <<pc, arg_include, arg_exclude, arg_tail, arg_log_file, arg_output,
              file, include_pattern, exclude_pattern, in_handle, pos,
              out_handle, out_buf, sink, raw, tail_processed, ret, raised>>
vars == <<engineVars, viewerVars, progVars>>

----------------------------------------------------------------------------
(* Bounds of the model.                                                    *)

MaxLines == 2
MaxRecords == 4
MaxHeight == 5
MaxFileLen == 3
MaxSupplyLines == 3

----------------------------------------------------------------------------
(* The name supply.                                                        *)

Name(t) == [text |-> t, n |-> 0]

BASE_NAMES ==
    << Name("Alice"), Name("Bob"), Name("Carol"), Name("Dave"), Name("Eve"),
       Name("Frank"), Name("Grace"), Name("Heidi"), Name("Ivan"), Name("Judy"),
       Name("Mallory"), Name("Niaj"), Name("Olivia"), Name("Peggy"),
       Name("Rupert"), Name("Sybil"), Name("Trent"), Name("Uma"),
       Name("Victor"), Name("Walter"), Name("Xavier"), Name("Yvonne"),
       Name("Zara") >>

NATO_NAMES ==
    << Name("Alpha"), Name("Bravo"), Name("Charlie"), Name("Delta"),
       Name("Echo"), Name("Foxtrot"), Name("Golf"), Name("Hotel"),
       Name("India"), Name("Juliet"), Name("Kilo"), Name("Lima"), Name("Mike"),
       Name("November"), Name("Oscar"), Name("Papa"), Name("Quebec"),
       Name("Romeo"), Name("Sierra"), Name("Tango"), Name("Uniform"),
       Name("Victor"), Name("Whiskey"), Name("Xray"), Name("Yankee"),
       Name("Zulu") >>

\* (mutation) the generator with itertools.count(0) for itertools.count(1)
build_name_generatorFromZero(k) ==
    IF k <= Len(BASE_NAMES) THEN BASE_NAMES[k]
    ELSE IF k <= Len(BASE_NAMES) + Len(NATO_NAMES)
         THEN NATO_NAMES[k - Len(BASE_NAMES)]
         ELSE [text |-> "Name", n |-> k - Len(BASE_NAMES) - Len(NATO_NAMES) - 1]

\* The k-th value the generator yields (k >= 1): the proper names, then the
\* phonetic names, then Name1, Name2, ...
build_name_generator(k) ==
    IF k <= Len(BASE_NAMES) THEN BASE_NAMES[k]
    ELSE IF k <= Len(BASE_NAMES) + Len(NATO_NAMES)
         THEN NATO_NAMES[k - Len(BASE_NAMES)]
         ELSE [text |-> "Name", n |-> k - Len(BASE_NAMES) - Len(NATO_NAMES)]

----------------------------------------------------------------------------
(* Units of text.                                                          *)

MinDigits == 5

Bracket(d) == [form |-> "bracket", val |-> d]       \* "[" d "]"
Inline(d) == [form |-> "inline", val |-> d]         \* "HashCode=" d
Text(w) == [form |-> "text", val |-> w]             \* ordinary text
Eol(c) == [form |-> "eol", val |-> c]               \* a line boundary character
BracketAlias(nm) == [form |-> "bracket_alias", val |-> nm]   \* "[ " name " ]"
InlineAlias(nm) == [form |-> "inline_alias", val |-> nm]     \* "HashCode=" name

LF == Eol("LF")        \* "\n"
CRLF == Eol("CRLF")    \* "\r\n"
FF == Eol("FF")        \* "\f", a boundary of str.splitlines only

H1 == <<1, 2, 3, 4, 5>>
H2 == <<0, 1, 2, 3, 4, 5>>
H3 == <<6, 7, 8, 9, 0>>
HShort == <<1, 2, 3, 4>>
DigitRuns == {H1, H2, H3, HShort}

\* (mutation) the bracket pattern with \d+ for \d{5,}
BRACKET_HASH_RE_AnyLength(u) == u.form = "bracket"

\* \[(\d{5,})\] matches the unit
BRACKET_HASH_RE(u) == u.form = "bracket" /\ Len(u.val) >= MinDigits

\* HashCode=(\d{5,}) matches the unit
INLINE_HASH_RE(u) == u.form = "inline" /\ Len(u.val) >= MinDigits

----------------------------------------------------------------------------
(* The alias table and the line transformer.  A table is the pair of the   *)
(* closure's two cells: [aliases, names].                                  *)

EmptyTable == [aliases |-> <<>>, names |-> 0]

RECURSIVE StripZeros(_)
StripZeros(d) ==
    IF Len(d) > 1 /\ Head(d) = 0 THEN StripZeros(Tail(d)) ELSE d

\* (mutation) the table keyed by the numeric value of the digits
HashKeyNumeric(d) == StripZeros(d)

\* The dict key of a match: m.group(1), the literal digit string.
HashKey(d) == d

\* (mutation) alias_for without the membership test: every call draws a name
alias_forFresh(tb, d) ==
    [aliases |-> (HashKey(d) :> build_name_generator(tb.names + 1)) @@ tb.aliases,
     names |-> tb.names + 1]

\* alias_for: the table after the call; the name returned is Lookup of it.
alias_for(tb, d) ==
    IF HashKey(d) \notin DOMAIN tb.aliases
    THEN [aliases |-> tb.aliases @@ (HashKey(d) :> build_name_generator(tb.names + 1)),
          names |-> tb.names + 1]
    ELSE tb

Lookup(tb, d) == tb.aliases[HashKey(d)]

\* BRACKET_HASH_RE.sub(lambda m: f"[ {alias_for(m.group(1))} ]", line): one
\* left-to-right scan, the lambda called at each match in order.  The result
\* is [line, tb].
RECURSIVE SubBracket(_, _, _)
SubBracket(line, i, tb) ==
    IF i > Len(line) THEN [line |-> line, tb |-> tb]
    ELSE IF BRACKET_HASH_RE(line[i])
         THEN LET tb2 == alias_for(tb, line[i].val)
              IN SubBracket([line EXCEPT ![i] = BracketAlias(Lookup(tb2, line[i].val))],
                            i + 1, tb2)
         ELSE SubBracket(line, i + 1, tb)

\* INLINE_HASH_RE.sub(lambda m: f"HashCode={alias_for(m.group(1))}", updated)
RECURSIVE SubInline(_, _, _)
SubInline(line, i, tb) ==
    IF i > Len(line) THEN [line |-> line, tb |-> tb]
    ELSE IF INLINE_HASH_RE(line[i])
         THEN LET tb2 == alias_for(tb, line[i].val)
              IN SubInline([line EXCEPT ![i] = InlineAlias(Lookup(tb2, line[i].val))],
                           i + 1, tb2)
         ELSE SubInline(line, i + 1, tb)

\* (mutation) process with the inline pass first
processInlineFirst(line, tb) ==
    LET afterInline == SubInline(line, 1, tb)
    IN SubBracket(afterInline.line, 1, afterInline.tb)

\* make_line_processor's process(line): the bracket pass over the whole line,
\* then the inline pass over its result.
process(line, tb) ==
    LET afterBracket == SubBracket(line, 1, tb)
    IN SubInline(afterBracket.line, 1, afterBracket.tb)

\* (mutation) preprocess_lines with a new table for every line
RECURSIVE preprocess_fromPerLine(_, _, _)
preprocess_fromPerLine(ls, done, tb) ==
    IF ls = <<>> THEN [lines |-> done, tb |-> tb]
    ELSE LET afterBracket == SubBracket(Head(ls), 1, EmptyTable)
             afterInline == SubInline(afterBracket.line, 1, afterBracket.tb)
         IN preprocess_fromPerLine(Tail(ls), Append(done, afterInline.line),
                                   afterInline.tb)

\* preprocess_lines: the same two passes for each line in turn, one table.
\* The result is [lines, tb].
RECURSIVE preprocess_from(_, _, _)
preprocess_from(ls, done, tb) ==
    IF ls = <<>> THEN [lines |-> done, tb |-> tb]
    ELSE LET afterBracket == SubBracket(Head(ls), 1, tb)
             afterInline == SubInline(afterBracket.line, 1, afterBracket.tb)
         IN preprocess_from(Tail(ls), Append(done, afterInline.line), afterInline.tb)

preprocess_lines(ls) == preprocess_from(ls, <<>>, EmptyTable).lines

----------------------------------------------------------------------------
(* Compiled patterns.  A pattern is ".*" (the default, which matches every  *)
(* line), the escaped text of one unit (found anywhere in the line), or    *)
(* absent.                                                                 *)

AnyPattern == [kind |-> "any", unit |-> Text("")]
Lit(u) == [kind |-> "lit", unit |-> u]
NoPattern == [kind |-> "none", unit |-> Text("")]          \* None
Malformed == [kind |-> "malformed", unit |-> Text("(")]    \* re.compile raises

----------------------------------------------------------------------------
(* The values the variables of a part hold while another part runs.        *)

EngineIdle ==
    /\ lines = <<>>
    /\ processed = <<>>
    /\ aliases = <<>>
    /\ names = 0

ViewerIdle ==
    /\ records = <<>>
    /\ show_all = FALSE
    /\ cursor = 0
    /\ top = 0
    /\ height = 0
    /\ body_height = 0
    /\ key = "none"
    /\ prev_key = "none"
    /\ current_line = 0
    /\ vpc = "idle"

ProgIdle ==
    /\ pc = "idle"
    /\ arg_include = NoPattern
    /\ arg_exclude = NoPattern
    /\ arg_tail = FALSE
    /\ arg_log_file = "none"
    /\ arg_output = FALSE
    /\ file = <<>>
    /\ include_pattern = NoPattern
    /\ exclude_pattern = NoPattern
    /\ in_handle = "none"
    /\ pos = 0
    /\ out_handle = "none"
    /\ out_buf = <<>>
    /\ sink = <<>>
    /\ raw = <<>>
    /\ tail_processed = <<>>
    /\ ret = -1
    /\ raised = ""

----------------------------------------------------------------------------
(* The include / exclude decision.                                         *)

\* pattern.search(line) is not None
search(p, line) ==
    \/ p.kind = "any"
    \/ p.kind = "lit" /\ \E i \in DOMAIN line : line[i] = p.unit

RECURSIVE rstrip_newline(_)
\* line.rstrip("\n")
rstrip_newline(line) ==
    IF line # <<>> /\ line[Len(line)] = LF
    THEN rstrip_newline(SubSeq(line, 1, Len(line) - 1))
    ELSE line

\* (mutation) build_records with "or" for "and not"
build_recordsOr(processed_lines, inc, exc) ==
    [idx \in 1..Len(processed_lines) |->
        LET line == processed_lines[idx]
            include_match == search(inc, line)
            excluded == IF exc # NoPattern THEN search(exc, line) ELSE FALSE
        IN [source_line_number |-> idx,
            text |-> rstrip_newline(line),
            included |-> include_match \/ excluded]]

build_records(processed_lines, inc, exc) ==
    [idx \in 1..Len(processed_lines) |->
        LET line == processed_lines[idx]
            include_match == search(inc, line)
            excluded == IF exc # NoPattern THEN search(exc, line) ELSE FALSE
        IN [source_line_number |-> idx,
            text |-> rstrip_newline(line),
            included |-> include_match /\ ~excluded]]

\* (mutation) filter_lines without the exclude test
RECURSIVE filter_linesIncludeOnly(_, _, _)
filter_linesIncludeOnly(processed_lines, inc, exc) ==
    IF processed_lines = <<>> THEN <<>>
    ELSE LET line == Head(processed_lines)
             rest == filter_linesIncludeOnly(Tail(processed_lines), inc, exc)
         IN IF search(inc, line) THEN <<line>> \o rest ELSE rest

RECURSIVE filter_lines(_, _, _)
filter_lines(processed_lines, inc, exc) ==
    IF processed_lines = <<>> THEN <<>>
    ELSE LET line == Head(processed_lines)
             include_match == search(inc, line)
             excluded == IF exc # NoPattern THEN search(exc, line) ELSE FALSE
             rest == filter_lines(Tail(processed_lines), inc, exc)
         IN IF include_match /\ ~excluded THEN <<line>> \o rest ELSE rest

Range(s) == {s[i] : i \in DOMAIN s}

SeqsUpTo(S, n) == UNION {[1..k -> S] : k \in 0..n}

----------------------------------------------------------------------------
(* run_viewer.  cursor and top count from 0, as in the code; items[cursor] *)
(* is Items[cursor + 1] here.                                              *)

Max(a, b) == IF a >= b THEN a ELSE b
Min(a, b) == IF a <= b THEN a ELSE b

Placeholder ==
    [source_line_number |-> 0,
     text |-> <<Text("No lines matched the current filter.")>>,
     included |-> TRUE]

IsIncluded(r) == r.included

visible_records(sa) == IF sa THEN records ELSE SelectSeq(records, IsIncluded)

\* items: visible_records(), or the one placeholder row when that is empty
Items(sa) == IF visible_records(sa) = <<>> THEN <<Placeholder>> ELSE visible_records(sa)

\* cursor = max(0, min(cursor, len(items) - 1))
ClampCursor(c, n) == Max(0, Min(c, n - 1))

\* body_height = max(1, height - 2)
BodyHeight(h) == Max(1, h - 2)

\* (mutation) the scroll that only ever moves up
ScrollTopUpOnly(c, t, bh) == IF c < t THEN c ELSE t

\* the two "if"s that bring the cursor row on screen
ScrollTop(c, t, bh) ==
    LET t1 == IF c < t THEN c ELSE t
    IN IF c >= t1 + bh THEN c - bh + 1 ELSE t1

\* (mutation) the re-anchoring that takes the first record past the line
ToggleCursorStrict(new_items, line) ==
    LET hits == {i \in DOMAIN new_items : new_items[i].source_line_number > line}
    IN IF hits # {} THEN (CHOOSE i \in hits : \A j \in hits : i <= j) - 1
       ELSE Len(new_items) - 1

\* (mutation) the for loop of the toggle branch without its else
ToggleCursorNoElse(new_items, line) ==
    LET hits == {i \in DOMAIN new_items : new_items[i].source_line_number >= line}
    IN IF hits # {} THEN (CHOOSE i \in hits : \A j \in hits : i <= j) - 1
       ELSE 0

\* the for/else of the toggle branch: the index of the first record whose
\* source line number is >= line, else the last index
ToggleCursor(new_items, line) ==
    LET hits == {i \in DOMAIN new_items : new_items[i].source_line_number >= line}
    IN IF hits # {} THEN (CHOOSE i \in hits : \A j \in hits : i <= j) - 1
       ELSE Len(new_items) - 1

Heights == 2..MaxHeight

ViewerLines == {<<Text("keep"), LF>>, <<Text("drop"), LF>>}

\* run_viewer entered with the records build_records made and either value of
\* start_show_all
InitViewer ==
    /\ \E ls \in SeqsUpTo(ViewerLines, MaxRecords) :
          records = build_records(ls, Lit(Text("keep")), NoPattern)
    /\ show_all \in BOOLEAN
    /\ cursor = 0
    /\ top = 0
    /\ height = 0
    /\ body_height = 0
    /\ key = "none"
    /\ prev_key = "none"
    /\ current_line = 0
    /\ vpc = "render"
    /\ EngineIdle
    /\ ProgIdle

\* The top of the loop down to refresh: clamp, read the screen size, scroll.
Render ==
    /\ vpc = "render"
    /\ \E h \in Heights :
          LET c == ClampCursor(cursor, Len(Items(show_all)))
          IN /\ cursor' = c
             /\ height' = h
             /\ body_height' = BodyHeight(h)
             /\ top' = ScrollTop(c, top, BodyHeight(h))
    /\ vpc' = "getch"
    /\ UNCHANGED <<records, show_all, key, prev_key, current_line>>
    /\ UNCHANGED <<engineVars, progVars>>

Got(k) ==
    /\ vpc = "getch"
    /\ key' = k
    /\ prev_key' = key
    /\ UNCHANGED <<records, top, height, body_height>>
    /\ UNCHANGED <<engineVars, progVars>>

Quit ==
    /\ Got("q")
    /\ vpc' = "done"
    /\ UNCHANGED <<show_all, cursor, current_line>>

MoveUp ==
    /\ Got("KEY_UP")
    /\ cursor' = Max(0, cursor - 1)
    /\ vpc' = "render"
    /\ UNCHANGED <<show_all, current_line>>

MoveDown ==
    /\ Got("KEY_DOWN")
    /\ cursor' = Min(Len(Items(show_all)) - 1, cursor + 1)
    /\ vpc' = "render"
    /\ UNCHANGED <<show_all, current_line>>

PageUp ==
    /\ Got("KEY_PPAGE")
    /\ cursor' = Max(0, cursor - body_height)
    /\ vpc' = "render"
    /\ UNCHANGED <<show_all, current_line>>

\* (mutation) the page-down branch without its min
PageDownUnclamped ==
    /\ Got("KEY_NPAGE")
    /\ cursor' = cursor + body_height
    /\ vpc' = "render"
    /\ UNCHANGED <<show_all, current_line>>

PageDown ==
    /\ Got("KEY_NPAGE")
    /\ cursor' = Min(Len(Items(show_all)) - 1, cursor + body_height)
    /\ vpc' = "render"
    /\ UNCHANGED <<show_all, current_line>>

ToggleShowAll ==
    /\ Got("a")
    /\ current_line' = Items(show_all)[cursor + 1].source_line_number
    /\ show_all' = ~show_all
    /\ cursor' = ToggleCursor(Items(~show_all), current_line')
    /\ vpc' = "render"

\* any key no branch handles (a resize among them): the loop renders again
OtherKey ==
    /\ Got("other")
    /\ vpc' = "render"
    /\ UNCHANGED <<show_all, cursor, current_line>>

NextViewer ==
    \/ Render
    \/ Quit
    \/ MoveUp
    \/ MoveDown
    \/ PageUp
    \/ PageDown
    \/ ToggleShowAll
    \/ OtherKey

SpecViewer == InitViewer /\ [][NextViewer]_vars

----------------------------------------------------------------------------
(* Reading text.  A handle opened in text mode with the default newline    *)
(* argument (Path.read_text, Path.open("r"), sys.stdin) hands "\r\n" over *)
(* as "\n".  str.splitlines breaks after every line boundary character,   *)
(* readline only after "\n".                                               *)

\* the text a text-mode handle yields for the stored content
read_text(content) ==
    [i \in DOMAIN content |-> IF content[i] = CRLF THEN LF ELSE content[i]]

\* the index of the first unit at or after i that ends a line, Len + 1 if none
RECURSIVE NextBreak(_, _, _)
NextBreak(text, i, breaks) ==
    IF i > Len(text) THEN i
    ELSE IF text[i] \in breaks THEN i
    ELSE NextBreak(text, i + 1, breaks)

\* text.splitlines(keepends=True)
RECURSIVE splitlines_keepends(_)
splitlines_keepends(text) ==
    IF text = <<>> THEN <<>>
    ELSE LET e == Min(NextBreak(text, 1, {LF, CRLF, FF}), Len(text))
         IN <<SubSeq(text, 1, e)>> \o splitlines_keepends(SubSeq(text, e + 1, Len(text)))

\* handle.readline() with p units already read: up to and with the next "\n",
\* or what is left of the content when it holds no further "\n"
readline(text, p) ==
    SubSeq(text, p + 1, Min(NextBreak(text, p + 1, {LF}), Len(text)))

\* "".join(lines)
RECURSIVE join(_)
join(ls) == IF ls = <<>> THEN <<>> ELSE Head(ls) \o join(Tail(ls))

----------------------------------------------------------------------------
(* main and stream_tail.                                                   *)

STATUS_OK == 0                \* return 0
STATUS_BAD_PATTERN == 2       \* return 2 after "Invalid --include/--exclude regex"
STATUS_TAIL_STDIN == 2        \* return 2 after "--tail requires a file path"

\* (mutation) the missing file reported with the status of a bad pattern
STATUS_NOT_FOUND_AsUsage == STATUS_BAD_PATTERN

STATUS_NOT_FOUND == 1         \* return 1 after "File not found"

FileUnits == {Text("keep"), Text("drop"), Bracket(H1), LF, CRLF, FF}

Files == SeqsUpTo(FileUnits, MaxFileLen)

\* The process started with its arguments parsed (parse_args): any include
\* and exclude option, either mode, the log file "-" (stdin), a file that is
\* there or a path that is not, with or without --output.
InitProg ==
    /\ pc = "main"
    /\ arg_include \in {AnyPattern, Lit(Text("keep")), Malformed}
    /\ arg_exclude \in {NoPattern, Lit(Text("drop")), Malformed}
    /\ arg_tail \in BOOLEAN
    /\ arg_log_file \in {"-", "present", "missing"}
    /\ arg_output \in BOOLEAN
    /\ file \in Files
    /\ (arg_log_file = "missing" => file = <<>>)
    /\ include_pattern = NoPattern
    /\ exclude_pattern = NoPattern
    /\ in_handle = "none"
    /\ pos = 0
    /\ out_handle = "none"
    /\ out_buf = <<>>
    /\ sink = <<>>
    /\ raw = <<>>
    /\ tail_processed = <<>>
    /\ ret = -1
    /\ raised = ""
    /\ EngineIdle
    /\ ViewerIdle

argVars == <<arg_include, arg_exclude, arg_tail, arg_log_file, arg_output, file>>
tailVars == <<in_handle, pos, out_handle, out_buf, sink, raw, tail_processed>>

\* return <status> from main
Return(status) ==
    /\ ret' = status
    /\ pc' = "done"

\* lines 304-308
CompileInclude ==
    /\ pc = "main"
    /\ IF arg_include = Malformed
       THEN Return(STATUS_BAD_PATTERN) /\ UNCHANGED include_pattern
       ELSE include_pattern' = arg_include /\ pc' = "main_exclude" /\ UNCHANGED ret
    /\ UNCHANGED <<argVars, exclude_pattern, tailVars, raised, engineVars, viewerVars>>

\* lines 310-316
CompileExclude ==
    /\ pc = "main_exclude"
    /\ IF arg_exclude = NoPattern
       THEN exclude_pattern' = NoPattern /\ pc' = "main_mode" /\ UNCHANGED ret
       ELSE IF arg_exclude = Malformed
            THEN Return(STATUS_BAD_PATTERN) /\ UNCHANGED exclude_pattern
            ELSE exclude_pattern' = arg_exclude /\ pc' = "main_mode" /\ UNCHANGED ret
    /\ UNCHANGED <<argVars, include_pattern, tailVars, raised, engineVars, viewerVars>>

\* (mutation) main without the test of line 319
ChooseModeUnchecked ==
    /\ pc = "main_mode"
    /\ pc' = IF arg_tail THEN "tail_start" ELSE "main_read"
    /\ UNCHANGED <<argVars, include_pattern, exclude_pattern, tailVars, ret, raised,
                   engineVars, viewerVars>>

\* lines 318-322
ChooseMode ==
    /\ pc = "main_mode"
    /\ IF arg_tail
       THEN IF arg_log_file = "-"
            THEN Return(STATUS_TAIL_STDIN)
            ELSE pc' = "tail_start" /\ UNCHANGED ret
       ELSE pc' = "main_read" /\ UNCHANGED ret
    /\ UNCHANGED <<argVars, include_pattern, exclude_pattern, tailVars, raised,
                   engineVars, viewerVars>>

\* lines 324-332: raw_lines
ReadInput ==
    /\ pc = "main_read"
    /\ IF arg_log_file = "missing"
       THEN Return(STATUS_NOT_FOUND) /\ UNCHANGED lines
       ELSE /\ lines' = splitlines_keepends(read_text(file))
            /\ pc' = "main_preprocess"
            /\ UNCHANGED ret
    /\ UNCHANGED <<argVars, include_pattern, exclude_pattern, tailVars, raised,
                   processed, aliases, names, viewerVars>>

\* line 334
Preprocess ==
    /\ pc = "main_preprocess"
    /\ processed' = preprocess_lines(lines)
    /\ pc' = "main_output"
    /\ UNCHANGED <<argVars, include_pattern, exclude_pattern, tailVars, ret, raised,
                   lines, aliases, names, viewerVars>>

\* lines 336-339: filter_lines and write_text, which opens, writes and closes
WriteOutput ==
    /\ pc = "main_output"
    /\ arg_output
    /\ sink' = join(filter_lines(processed, include_pattern, exclude_pattern))
    /\ out_handle' = "closed"
    /\ Return(STATUS_OK)
    /\ UNCHANGED <<argVars, include_pattern, exclude_pattern, in_handle, pos, out_buf,
                   raw, tail_processed, raised, engineVars, viewerVars>>

\* line 341
BuildRecords ==
    /\ pc = "main_output"
    /\ ~arg_output
    /\ records' = build_records(processed, include_pattern, exclude_pattern)
    /\ pc' = "main_viewer"
    /\ UNCHANGED <<argVars, include_pattern, exclude_pattern, tailVars, ret, raised,
                   engineVars, show_all, cursor, top, height, body_height, key,
                   prev_key, current_line, vpc>>

\* lines 342-343: the viewer session, from curses.wrapper to its return on quit
ViewerSession ==
    /\ pc = "main_viewer"
    /\ Return(STATUS_OK)
    /\ UNCHANGED <<argVars, include_pattern, exclude_pattern, tailVars, raised,
                   engineVars, viewerVars>>

\* lines 278-279: the line processor and out_handle
TailSetup ==
    /\ pc = "tail_start"
    /\ aliases' = EmptyTable.aliases
    /\ names' = EmptyTable.names
    /\ out_handle' = IF arg_output THEN "open" ELSE "stdout"
    /\ sink' = <<>>
    /\ pc' = "tail_try"
    /\ UNCHANGED <<argVars, include_pattern, exclude_pattern, in_handle, pos, out_buf,
                   raw, tail_processed, ret, raised, lines, processed, viewerVars>>

\* line 281
EnterTry ==
    /\ pc = "tail_try"
    /\ pc' = "tail_open_in"
    /\ UNCHANGED <<argVars, include_pattern, exclude_pattern, tailVars, ret, raised,
                   engineVars, viewerVars>>

\* line 282: path.open; FileNotFoundError is no KeyboardInterrupt, so it goes
\* to the finally block and on
OpenInput ==
    /\ pc = "tail_open_in"
    /\ IF arg_log_file = "missing"
       THEN raised' = "FileNotFoundError" /\ pc' = "tail_finally" /\ UNCHANGED in_handle
       ELSE in_handle' = "open" /\ pc' = "tail_readline" /\ UNCHANGED raised
    /\ pos' = 0
    /\ UNCHANGED <<argVars, include_pattern, exclude_pattern, out_handle, out_buf, sink,
                   raw, tail_processed, ret, engineVars, viewerVars>>

\* lines 284-285
ReadLine ==
    /\ pc = "tail_readline"
    /\ raw' = readline(read_text(file), pos)
    /\ pos' = pos + Len(raw')
    /\ pc' = IF raw' = <<>> THEN "tail_sleep" ELSE "tail_process"
    /\ UNCHANGED <<argVars, include_pattern, exclude_pattern, in_handle, out_handle,
                   out_buf, sink, tail_processed, ret, raised, engineVars, viewerVars>>

\* lines 286-287: time.sleep(interval); continue
Sleep ==
    /\ pc = "tail_sleep"
    /\ pc' = "tail_readline"
    /\ UNCHANGED <<argVars, include_pattern, exclude_pattern, tailVars, ret, raised,
                   engineVars, viewerVars>>

\* lines 288-291
ProcessRaw ==
    /\ pc = "tail_process"
    /\ LET r == process(raw, [aliases |-> aliases, names |-> names])
           include_match == search(include_pattern, r.line)
           excluded == IF exclude_pattern # NoPattern
                       THEN search(exclude_pattern, r.line) ELSE FALSE
       IN /\ tail_processed' = r.line
          /\ aliases' = r.tb.aliases
          /\ names' = r.tb.names
          /\ pc' = IF include_match /\ ~excluded THEN "tail_write" ELSE "tail_readline"
    /\ UNCHANGED <<argVars, include_pattern, exclude_pattern, in_handle, pos, out_handle,
                   out_buf, sink, raw, ret, raised, lines, processed, viewerVars>>

\* line 292
Write ==
    /\ pc = "tail_write"
    /\ out_buf' = out_buf \o tail_processed
    /\ pc' = "tail_flush"
    /\ UNCHANGED <<argVars, include_pattern, exclude_pattern, in_handle, pos, out_handle,
                   sink, raw, tail_processed, ret, raised, engineVars, viewerVars>>

\* (mutation) a flush that does nothing
FlushedNever(s, b) == [sink |-> s, out_buf |-> b]

\* out_handle.flush(): the buffer goes to the destination
Flushed(s, b) == [sink |-> s \o b, out_buf |-> <<>>]

\* line 293
Flush ==
    /\ pc = "tail_flush"
    /\ sink' = Flushed(sink, out_buf).sink
    /\ out_buf' = Flushed(sink, out_buf).out_buf
    /\ pc' = "tail_readline"
    /\ UNCHANGED <<argVars, include_pattern, exclude_pattern, in_handle, pos, out_handle,
                   raw, tail_processed, ret, raised, engineVars, viewerVars>>

\* KeyboardInterrupt raised before the try statement is entered: nothing in
\* stream_tail catches it and no finally block runs.  An out_handle already
\* opened is not closed by the function.
InterruptOutsideTry ==
    /\ pc \in {"tail_start", "tail_try"}
    /\ raised' = "KeyboardInterrupt"
    /\ pc' = "done"
    /\ UNCHANGED <<argVars, include_pattern, exclude_pattern, tailVars, ret,
                   engineVars, viewerVars>>

\* KeyboardInterrupt raised inside the try statement: the with block closes
\* the handle it holds and control reaches the except clause.
InterruptInsideTry ==
    /\ pc \in {"tail_open_in", "tail_readline", "tail_sleep", "tail_process",
               "tail_write", "tail_flush"}
    /\ in_handle' = IF in_handle = "open" THEN "closed" ELSE in_handle
    /\ pc' = "tail_except"
    /\ UNCHANGED <<argVars, include_pattern, exclude_pattern, pos, out_handle, out_buf,
                   sink, raw, tail_processed, ret, raised, engineVars, viewerVars>>

\* lines 294-295: return 0, the finally block still to run
Except ==
    /\ pc = "tail_except"
    /\ ret' = STATUS_OK
    /\ pc' = "tail_finally"
    /\ UNCHANGED <<argVars, include_pattern, exclude_pattern, tailVars, raised,
                   engineVars, viewerVars>>

\* lines 296-298: close() flushes what the buffer holds
Finally ==
    /\ pc = "tail_finally"
    /\ IF arg_output /\ out_handle # "stdout"
       THEN /\ out_handle' = "closed"
            /\ sink' = sink \o out_buf
            /\ out_buf' = <<>>
       ELSE UNCHANGED <<out_handle, sink, out_buf>>
    /\ pc' = "done"
    /\ UNCHANGED <<argVars, include_pattern, exclude_pattern, in_handle, pos, raw,
                   tail_processed, ret, raised, engineVars, viewerVars>>

Next ==
    \/ CompileInclude
    \/ CompileExclude
    \/ ChooseMode
    \/ ReadInput
    \/ Preprocess
    \/ WriteOutput
    \/ BuildRecords
    \/ ViewerSession
    \/ TailSetup
    \/ EnterTry
    \/ OpenInput
    \/ ReadLine
    \/ Sleep
    \/ ProcessRaw
    \/ Write
    \/ Flush
    \/ InterruptOutsideTry
    \/ InterruptInsideTry
    \/ Except
    \/ Finally

Init == InitProg

Spec == Init /\ [][Next]_vars

----------------------------------------------------------------------------
(* The program beside a writer that appends to the log file while the tail *)
(* driver runs.  The file is empty when the run starts; a chunk of several *)
(* units is several appends with no step of the driver between them.       *)

InitAppend == InitProg /\ file = <<>>

\* the writer: one more unit at the end of the file (what line 284 reads next)
AppendChunk ==
    /\ pc \in {"tail_start", "tail_try", "tail_open_in", "tail_readline", "tail_sleep",
               "tail_process", "tail_write", "tail_flush"}
    /\ arg_log_file = "present"
    /\ Len(file) < MaxFileLen
    /\ \E u \in FileUnits : file' = Append(file, u)
    /\ UNCHANGED <<pc, arg_include, arg_exclude, arg_tail, arg_log_file, arg_output,
                   include_pattern, exclude_pattern, tailVars, ret, raised,
                   engineVars, viewerVars>>

NextAppend ==
    \/ Next
    \/ AppendChunk

SpecAppend == InitAppend /\ [][NextAppend]_vars

----------------------------------------------------------------------------
(* Properties of main and stream_tail.                                     *)

\* a search stated on the units of the line
MatchesAnywhere(p, line) == p = AnyPattern \/ p.unit \in Range(line)

\* the include / exclude decision as the filter's contract words it
Decision(line) ==
    /\ MatchesAnywhere(include_pattern, line)
    /\ ~(exclude_pattern # NoPattern /\ MatchesAnywhere(exclude_pattern, line))

\* C5 (filter correctness): the records main builds hold, line for line,
\* included = include matches somewhere and not (an exclude pattern is there
\* and matches somewhere); without an exclude pattern that is the include match
\* alone, and with the default include pattern as well every line is included.
FilterCorrectness ==
    pc = "main_viewer" =>
        /\ Len(records) = Len(processed)
        /\ \A i \in DOMAIN records :
              /\ records[i].source_line_number = i
              /\ records[i].included = Decision(processed[i])
              /\ (exclude_pattern = NoPattern =>
                     records[i].included = MatchesAnywhere(include_pattern, processed[i]))
              /\ (exclude_pattern = NoPattern /\ include_pattern = AnyPattern =>
                     records[i].included)

\* C5 witness: records are built of which one is included and another matches
\* the include pattern and is left out by the exclude pattern.
FilterCorrectnessWitness ==
    /\ pc = "main_viewer"
    /\ exclude_pattern # NoPattern
    /\ \E i, j \in DOMAIN records :
          /\ records[i].included
          /\ ~records[j].included
          /\ MatchesAnywhere(include_pattern, processed[j])

PatternError == arg_include = Malformed \/ arg_exclude = Malformed
TailWithStdin == ~PatternError /\ arg_tail /\ arg_log_file = "-"
NotFound == ~PatternError /\ arg_log_file = "missing"
TailEntered == ~PatternError /\ arg_tail /\ arg_log_file # "-"

RECURSIVE CutAfterLF(_, _)
CutAfterLF(text, cur) ==
    IF text = <<>> THEN (IF cur = <<>> THEN <<>> ELSE <<cur>>)
    ELSE IF Head(text) = LF
         THEN <<Append(cur, LF)>> \o CutAfterLF(Tail(text), <<>>)
         ELSE CutAfterLF(Tail(text), Append(cur, Head(text)))

LinesRead == CutAfterLF(SubSeq(read_text(file), 1, pos), <<>>)

RECURSIVE Kept(_)
\* the lines of a list the filter's contract keeps, joined
Kept(ls) ==
    IF ls = <<>> THEN <<>>
    ELSE (IF Decision(Head(ls)) THEN Head(ls) ELSE <<>>) \o Kept(Tail(ls))

\* C9 (tail write-through): whenever the driver is about to read or to sleep,
\* nothing is left unflushed and the destination holds exactly the transformed
\* lines read so far that the filter keeps, in read order; it sleeps only
\* after a read that returned nothing, and what it is about to write passed
\* the filter.
TailWriteThrough ==
    /\ pc \in {"tail_readline", "tail_sleep"} =>
          /\ out_buf = <<>>
          /\ sink = Kept(preprocess_lines(LinesRead))
    /\ pc = "tail_sleep" => raw = <<>> /\ pos = Len(file)
    /\ pc \in {"tail_write", "tail_flush"} => Decision(tail_processed)

\* C9 witness: at end of file, asleep, the driver has written one line and
\* held another back.
TailWriteThroughWitness ==
    /\ pc = "tail_sleep"
    /\ Len(LinesRead) = 2
    /\ sink # <<>>
    /\ sink # join(preprocess_lines(LinesRead))

\* what batch mode writes for the same file and patterns
BatchOutput ==
    join(filter_lines(preprocess_lines(splitlines_keepends(read_text(file))),
                      include_pattern, exclude_pattern))

\* C4 as claimed (tail idempotence): once tail mode has read to the end of
\* the file (a read returned nothing) what it has written is what batch mode
\* writes for that file and those patterns.
TailEqualsBatch ==
    pc = "tail_sleep" => sink = BatchOutput

\* C8 as claimed (cancellation and release): however stream_tail is left, an
\* interrupt at any point since its start included, the input handle is not
\* open, the output file is closed if there is one and only then, and an
\* interrupt gives status 0.
TailReleasesOnEveryExit ==
    pc = "done" /\ TailEntered =>
        /\ in_handle # "open"
        /\ out_handle # "open"
        /\ (~arg_output => out_handle # "closed")
        /\ raised # "KeyboardInterrupt"
        /\ (raised = "" => ret = 0)

\* C19 as claimed (whole lines under concurrent append): whenever the driver
\* is about to read or to sleep with its read position at the start of the
\* file or just past a "\n", what it has emitted is what the filter keeps of
\* the transformed newline-terminated lines before that position, each taken
\* whole and in file order: no part of a line was transformed, filtered or
\* emitted before the rest of the line was there.
WholeLinesUnderAppend ==
    (/\ pc \in {"tail_readline", "tail_sleep"}
     /\ (pos = 0 \/ read_text(file)[pos] = LF))
    => sink \o out_buf = Kept(preprocess_lines(LinesRead))

\* C10 as claimed (batch output format): the file batch mode writes is the
\* lines of the input that pass the filter, transformed, in order, each ending
\* as it ends in the input.
BatchOutputKeepsTerminators ==
    pc = "done" /\ ~arg_tail /\ arg_output /\ ret = 0 =>
        sink = Kept(preprocess_lines(splitlines_keepends(file)))

RECURSIVE IncludedFrom(_, _, _)
\* the lines from index i on whose record is included, in order
IncludedFrom(ls, recs, i) ==
    IF i > Len(ls) THEN <<>>
    ELSE (IF recs[i].included THEN <<ls[i]>> ELSE <<>>) \o IncludedFrom(ls, recs, i + 1)

\* C20 (view / output agreement): for the transformed lines and patterns of
\* a run, build_records returns one record per line, the i-th numbered i, and
\* filter_lines returns exactly the lines whose record is included, in order;
\* the file a batch run writes is those lines joined.
ViewOutputAgreement ==
    /\ pc \in {"main_output", "main_viewer", "done"} /\ ~arg_tail =>
          LET recs == build_records(processed, include_pattern, exclude_pattern)
          IN /\ Len(recs) = Len(processed)
             /\ \A i \in DOMAIN recs : recs[i].source_line_number = i
             /\ filter_lines(processed, include_pattern, exclude_pattern)
                    = IncludedFrom(processed, recs, 1)
             /\ (pc = "main_viewer" => records = recs)
             /\ (pc = "done" /\ arg_output /\ ret = STATUS_OK =>
                    sink = join(IncludedFrom(processed, recs, 1)))

\* C20 witness: a batch run has written some of its lines and left out
\* others, an exclude pattern among the reasons.
ViewOutputAgreementWitness ==
    /\ pc = "done"
    /\ ~arg_tail
    /\ arg_output
    /\ ret = STATUS_OK
    /\ Len(processed) >= 2
    /\ sink # <<>>
    /\ sink # join(processed)
    /\ sink # join(filter_lines(processed, include_pattern, NoPattern))

\* C12 (validation precedes I/O): in a run whose include or exclude pattern is
\* malformed, or that asks for tail mode on stdin, main never leaves its
\* validation steps: no input is opened, read or transformed, no output is
\* opened or written, and the run ends with the status of the error.
ValidationPrecedesIO ==
    (PatternError \/ TailWithStdin) =>
        /\ pc \in {"main", "main_exclude", "main_mode", "done"}
        /\ in_handle = "none"
        /\ pos = 0
        /\ raw = <<>>
        /\ lines = <<>>
        /\ processed = <<>>
        /\ aliases = <<>>
        /\ names = 0
        /\ records = <<>>
        /\ out_handle = "none"
        /\ out_buf = <<>>
        /\ sink = <<>>
        /\ raised = ""
        /\ (pc = "done" => ret = 2)

\* C12 witness: a run with a well-formed include pattern, a malformed exclude
\* pattern, a file that is there and holds text, and --output has ended.
ValidationPrecedesIOWitness ==
    /\ pc = "done"
    /\ arg_include # Malformed
    /\ arg_exclude = Malformed
    /\ arg_log_file = "present"
    /\ file # <<>>
    /\ arg_output
    /\ include_pattern = arg_include
    /\ lines = <<>>
    /\ out_handle = "none"

----------------------------------------------------------------------------
(* Properties of the viewer.                                               *)

\* the source line number of the row under the cursor
SelectedLine == Items(show_all)[cursor + 1].source_line_number

IsIncludedLine(n) == n \in DOMAIN records /\ records[n].included

\* C2 (viewport clamp): whenever the loop waits for a key, whatever keys came
\* before and whatever heights the renders saw, the cursor is a row of the
\* visible sequence (row 0 of the placeholder when nothing is visible) and lies
\* in the window [top, top + body_height), body_height being
\* max(1, height - 2) of the last render.
ViewportClamp ==
    vpc = "getch" =>
        /\ 0 <= cursor
        /\ cursor <= Len(Items(show_all)) - 1
        /\ (visible_records(show_all) = <<>> => cursor = 0)
        /\ 0 <= top
        /\ top <= cursor
        /\ cursor < top + body_height
        /\ body_height = (IF height - 2 >= 1 THEN height - 2 ELSE 1)

\* C2 witness: a PageDown on a list longer than the body has been rendered
\* and the window has scrolled off the first row.
ViewportClampWitness ==
    /\ vpc = "getch"
    /\ key = "KEY_NPAGE"
    /\ top > 0
    /\ cursor = Len(records) - 1
    /\ Len(Items(show_all)) > body_height

\* C3 (toggle position preservation): a ToggleShowAll handled right after
\* another ToggleShowAll, the first made on an included record, puts the cursor
\* back on the source line the first one left (current_line still holds it),
\* and the render that follows keeps it there.
ToggleRoundTrip ==
    [][/\ (/\ vpc = "getch" /\ key = "a" /\ key' = "a"
           /\ IsIncludedLine(current_line))
          => SelectedLine' = current_line
       /\ (/\ vpc = "render" /\ key = "a" /\ prev_key = "a"
           /\ IsIncludedLine(SelectedLine))
          => SelectedLine' = SelectedLine]_vars

\* C3 witness: two toggles in a row have been handled and rendered on an
\* included record that sits at different rows of the two sequences.
ToggleRoundTripWitness ==
    /\ vpc = "getch"
    /\ key = "a"
    /\ prev_key = "a"
    /\ IsIncludedLine(SelectedLine)
    /\ SelectedLine = current_line
    /\ ToggleCursor(Items(~show_all), SelectedLine) # cursor

\* C14 (ToggleShowAll re-anchoring): the step that handles the toggle key
\* flips show_all and leaves the cursor on the first row of the new visible
\* sequence (the placeholder row, line 0, when that is empty) whose source
\* line number is at least that of the row selected before, or on the last
\* row when there is none.
ToggleReanchor ==
    [][(vpc = "getch" /\ key' = "a") =>
          LET old == SelectedLine
              vis == Items(~show_all)
              hits == {i \in DOMAIN vis : vis[i].source_line_number >= old}
          IN /\ show_all' = ~show_all
             /\ cursor' + 1 \in DOMAIN vis
             /\ (hits # {} =>
                    /\ cursor' + 1 \in hits
                    /\ \A j \in hits : cursor' + 1 <= j)
             /\ (hits = {} => cursor' = Len(vis) - 1)]_vars

\* C14 witness: a toggle from show-all, made on a filtered-out record below
\* every included one, has put the cursor on the last of several included
\* records.
ToggleReanchorWitness ==
    /\ vpc = "render"
    /\ key = "a"
    /\ ~show_all
    /\ cursor >= 1
    /\ cursor = Len(Items(show_all)) - 1
    /\ Items(show_all)[cursor + 1].source_line_number < current_line

\* C15 (movement transitions): with n the length of the visible sequence (of
\* the placeholder row when it is empty) and bh = max(1, height - 2) for the
\* height the last render read, the step that handles a movement key sets the
\* cursor to max(0, cursor - 1), min(n - 1, cursor + 1), max(0, cursor - bh) or
\* min(n - 1, cursor + bh), leaves show_all alone and goes on to render; the
\* step that handles the quit key ends the loop, and the quit key is taken
\* wherever the loop waits for a key.
MovementTransitions ==
    /\ [](vpc = "getch" => ENABLED Quit)
    /\ [][vpc = "getch" =>
            LET n == Len(Items(show_all))
                bh == IF height - 2 >= 1 THEN height - 2 ELSE 1
            IN /\ (key' = "KEY_UP" =>
                      cursor' = (IF cursor - 1 >= 0 THEN cursor - 1 ELSE 0))
               /\ (key' = "KEY_DOWN" =>
                      cursor' = (IF cursor + 1 <= n - 1 THEN cursor + 1 ELSE n - 1))
               /\ (key' = "KEY_PPAGE" =>
                      cursor' = (IF cursor - bh >= 0 THEN cursor - bh ELSE 0))
               /\ (key' = "KEY_NPAGE" =>
                      cursor' = (IF cursor + bh <= n - 1 THEN cursor + bh ELSE n - 1))
               /\ (key' \in {"KEY_UP", "KEY_DOWN", "KEY_PPAGE", "KEY_NPAGE"} =>
                      show_all' = show_all /\ vpc' = "render")
               /\ (key' = "q" => vpc' = "done")]_vars

\* C15 witness: a PageDown in show-all mode, the body two rows or more, has
\* moved the cursor past the window onto the last record.
MovementTransitionsWitness ==
    /\ vpc = "render"
    /\ key = "KEY_NPAGE"
    /\ show_all
    /\ body_height >= 2
    /\ cursor = Len(Items(show_all)) - 1
    /\ cursor >= top + body_height

----------------------------------------------------------------------------
(* The engine on its own: one alias table fed a line at a time, as the     *)
(* loop of preprocess_lines and as successive calls of process do.         *)

\* either form around a run of five digits, of six with a leading zero, of
\* another five, and of four (which neither pattern matches)
EngineUnits ==
    {Bracket(d) : d \in DigitRuns} \cup {Inline(d) : d \in DigitRuns}

EngineLines ==
    {<<u>> : u \in EngineUnits} \cup {<<u, v>> : u, v \in EngineUnits}

InitEngine == EngineIdle /\ ViewerIdle /\ ProgIdle

\* One iteration of "for line in lines" (one call of process): the line is
\* rewritten through the table and the result appended.
ProcessLine ==
    /\ Len(lines) < MaxLines
    /\ \E line \in EngineLines :
          LET r == process(line, [aliases |-> aliases, names |-> names])
          IN /\ lines' = Append(lines, line)
             /\ processed' = Append(processed, r.line)
             /\ aliases' = r.tb.aliases
             /\ names' = r.tb.names
    /\ UNCHANGED <<viewerVars, progVars>>

NextEngine == ProcessLine

SpecEngine == InitEngine /\ [][NextEngine]_vars

----------------------------------------------------------------------------
(* Properties of the engine.                                               *)

IsHash(u) == u.form \in {"bracket", "inline"} /\ Len(u.val) >= MinDigits

RECURSIVE FormRuns(_, _)
\* the digit runs of the hash occurrences of one form in a line, left to right
FormRuns(line, form) ==
    IF line = <<>> THEN <<>>
    ELSE IF Head(line).form = form /\ IsHash(Head(line))
         THEN <<Head(line).val>> \o FormRuns(Tail(line), form)
         ELSE FormRuns(Tail(line), form)

RECURSIVE Distinct(_, _)
\* a sequence without its repeats, first occurrences kept
Distinct(s, seen) ==
    IF s = <<>> THEN <<>>
    ELSE IF Head(s) \in seen THEN Distinct(Tail(s), seen)
         ELSE <<Head(s)>> \o Distinct(Tail(s), seen \cup {Head(s)})

RECURSIVE Encounters(_)
\* every hash occurrence of the lines in the order the scan meets them
Encounters(ls) ==
    IF ls = <<>> THEN <<>>
    ELSE FormRuns(Head(ls), "bracket") \o FormRuns(Head(ls), "inline")
             \o Encounters(Tail(ls))

EncounterOrder == Distinct(Encounters(lines), {})

\* what a unit must have become, given the finished table
Rewritten(u) ==
    IF u.form = "bracket" /\ IsHash(u) THEN BracketAlias(aliases[u.val])
    ELSE IF u.form = "inline" /\ IsHash(u) THEN InlineAlias(aliases[u.val])
    ELSE u

\* C1 (alias stability): the table's keys are exactly the distinct digit
\* strings met, the n-th of them in encounter order holds the n-th name of the
\* supply (Alice, Bob, ...), every occurrence in every line and in either form
\* reads as that one name, and digit strings that differ by a leading zero
\* hold different names.
AliasStability ==
    LET order == EncounterOrder
    IN /\ DOMAIN aliases = Range(order)
       /\ names = Len(order)
       /\ \A n \in DOMAIN order : aliases[order[n]] = build_name_generator(n)
       /\ Len(order) >= 1 => aliases[order[1]] = Name("Alice")
       /\ Len(order) >= 2 => aliases[order[2]] = Name("Bob")
       /\ Len(order) >= 3 => aliases[order[3]] = Name("Carol")
       /\ Len(processed) = Len(lines)
       /\ \A i \in DOMAIN lines :
             /\ Len(processed[i]) = Len(lines[i])
             /\ \A k \in DOMAIN lines[i] : processed[i][k] = Rewritten(lines[i][k])
       /\ ({H1, H2} \subseteq DOMAIN aliases => aliases[H1] # aliases[H2])

\* C1 witness: 12345 is met bracketed in the first line and inline in the
\* second, which also holds 012345; the two values read Alice and Bob.
AliasStabilityWitness ==
    /\ lines = << <<Bracket(H1)>>, <<Inline(H1), Bracket(H2)>> >>
    /\ processed = << <<BracketAlias(Name("Alice"))>>,
                      <<InlineAlias(Name("Alice")), BracketAlias(Name("Bob"))>> >>

\* C6 (pattern precedence independence): a value met inline in one line and
\* bracketed in a later line reads as the same name in both places, and the
\* generator has yielded exactly one name per distinct value.
InlineThenBracketSameAlias ==
    /\ names = Cardinality(Range(Encounters(lines)))
    /\ \A i, j \in DOMAIN processed :
          \A k \in DOMAIN lines[i], l \in DOMAIN lines[j] :
              (/\ i < j
               /\ INLINE_HASH_RE(lines[i][k])
               /\ BRACKET_HASH_RE(lines[j][l])
               /\ lines[i][k].val = lines[j][l].val)
              => /\ processed[i][k].form = "inline_alias"
                 /\ processed[j][l].form = "bracket_alias"
                 /\ processed[i][k].val = processed[j][l].val

\* C6 witness: HashCode=12345 alone in the first line, [12345] in the second,
\* one name drawn.
InlineThenBracketWitness ==
    /\ lines = << <<Inline(H1)>>, <<Bracket(H1)>> >>
    /\ processed = << <<InlineAlias(Name("Alice"))>>, <<BracketAlias(Name("Alice"))>> >>
    /\ names = 1

RECURSIVE WithoutShort(_)
\* a line without its bracketed and inline runs of fewer than MinDigits digits
WithoutShort(line) ==
    IF line = <<>> THEN <<>>
    ELSE IF Head(line).form \in {"bracket", "inline"} /\ Len(Head(line).val) < MinDigits
         THEN WithoutShort(Tail(line))
         ELSE <<Head(line)>> \o WithoutShort(Tail(line))

\* the hash occurrences of the lines with every short run taken out of them
EncounterOrderWithoutShort ==
    Distinct(Encounters([i \in DOMAIN lines |-> WithoutShort(lines[i])]), {})

\* C11 (short-digit non-match): a bracketed or inline run of fewer than five
\* digits stays in the output as it was, is no key of the table and draws no
\* name: the generator has yielded one name per distinct run of five digits or
\* more, and every such run holds the name it holds when the short runs are
\* taken out of the input.
ShortDigitNonMatch ==
    LET order == EncounterOrderWithoutShort
    IN /\ \A i \in DOMAIN lines : \A k \in DOMAIN lines[i] :
             Len(lines[i][k].val) < MinDigits => processed[i][k] = lines[i][k]
       /\ \A d \in DOMAIN aliases : Len(d) >= MinDigits
       /\ names = Len(order)
       /\ DOMAIN aliases = Range(order)
       /\ \A n \in DOMAIN order : aliases[order[n]] = build_name_generator(n)

\* C11 witness: [1234] and HashCode=1234 stand before a genuine value in two
\* lines; they are left as they were and the genuine values read Alice and Bob.
ShortDigitNonMatchWitness ==
    /\ lines = << <<Bracket(HShort), Inline(H1)>>, <<Inline(HShort), Bracket(H2)>> >>
    /\ processed = << <<Bracket(HShort), InlineAlias(Name("Alice"))>>,
                      <<Inline(HShort), BracketAlias(Name("Bob"))>> >>
    /\ names = 2

\* the distinct hash values of the first n lines
SeenBefore(n) == Range(Encounters(SubSeq(lines, 1, n)))

\* C13 (bracket-first encounter order): in every line the values not met in
\* an earlier line that occur bracketed take the next names of the supply in
\* their left-to-right order, and only then the values that occur inline alone
\* take theirs, wherever in the line they stand; a value in both forms on the
\* line takes its one name with the bracketed ones.
BracketFirstOrder ==
    \A i \in DOMAIN lines :
        LET seen == SeenBefore(i - 1)
            newBracket == Distinct(FormRuns(lines[i], "bracket"), seen)
            newInline == Distinct(FormRuns(lines[i], "inline"),
                                  seen \cup Range(newBracket))
            base == Cardinality(seen)
        IN /\ \A n \in DOMAIN newBracket :
                 aliases[newBracket[n]] = build_name_generator(base + n)
           /\ \A n \in DOMAIN newInline :
                 aliases[newInline[n]] =
                     build_name_generator(base + Len(newBracket) + n)
           /\ \A k, l \in DOMAIN lines[i] :
                 (/\ IsHash(lines[i][k]) /\ IsHash(lines[i][l])
                  /\ lines[i][k].val = lines[i][l].val)
                 => processed[i][k].val = processed[i][l].val

\* C13 witness: HashCode=12345 stands left of [012345] in the first line and
\* the bracketed value has taken the first name.
BracketFirstOrderWitness ==
    /\ lines = << <<Inline(H1), Bracket(H2)>> >>
    /\ processed = << <<InlineAlias(Name("Bob")), BracketAlias(Name("Alice"))>> >>

\* C17 (batch / incremental equivalence): after every line fed to process,
\* preprocess_lines of the lines fed so far returns the list the calls of
\* process returned, and ends with the table process holds.
BatchIncrementalEquivalence ==
    /\ preprocess_lines(lines) = processed
    /\ preprocess_from(lines, <<>>, EmptyTable).tb = [aliases |-> aliases, names |-> names]

\* C17 witness: two lines have gone through process, the second rewritten
\* with a name the first one drew.
BatchIncrementalWitness ==
    /\ lines = << <<Bracket(H2), Inline(H3)>>, <<Inline(H2), Bracket(H1)>> >>
    /\ processed = preprocess_lines(lines)
    /\ processed[2] = <<InlineAlias(Name("Alice")), BracketAlias(Name("Carol"))>>

----------------------------------------------------------------------------
(* The engine on a log with many values: a first line that holds a run of  *)
(* distinct bracketed values, then lines of one occurrence each, of a      *)
(* value met before or of a new one.                                       *)

\* the digit string of 10000 + n
Run(n) == <<1, 0, (n \div 100) % 10, (n \div 10) % 10, n % 10>>

\* "[10001] [10002] ... [10000+k]"
LongLine(k) == [i \in 1..k |-> Bracket(Run(i))]

\* lengths of the first line: short of the second "Victor", short of the end
\* of the phonetic list by one, and the two lists exactly
SupplyPrefixes == {44, 48, 49}

SupplyLines ==
    {<<Bracket(Run(n))>> : n \in 47..52} \cup {<<Inline(Run(n))>> : n \in 47..52}

InitSupply == EngineIdle /\ ViewerIdle /\ ProgIdle

\* process called on the first line
ProcessLongLine ==
    /\ lines = <<>>
    /\ \E k \in SupplyPrefixes :
          LET r == process(LongLine(k), [aliases |-> aliases, names |-> names])
          IN /\ lines' = <<LongLine(k)>>
             /\ processed' = <<r.line>>
             /\ aliases' = r.tb.aliases
             /\ names' = r.tb.names
    /\ UNCHANGED <<viewerVars, progVars>>

\* process called on a later line
ProcessShortLine ==
    /\ lines # <<>>
    /\ Len(lines) < 1 + MaxSupplyLines
    /\ \E line \in SupplyLines :
          LET r == process(line, [aliases |-> aliases, names |-> names])
          IN /\ lines' = Append(lines, line)
             /\ processed' = Append(processed, r.line)
             /\ aliases' = r.tb.aliases
             /\ names' = r.tb.names
    /\ UNCHANGED <<viewerVars, progVars>>

NextSupply ==
    \/ ProcessLongLine
    \/ ProcessShortLine

SpecSupply == InitSupply /\ [][NextSupply]_vars

\* C16 (name supply fall-through): however many distinct values are met, each
\* occurrence is rewritten with a name: the n-th distinct value holds the n-th
\* of the 23 proper names for n <= 23, the (n - 23)-th of the 26 phonetic names
\* for 23 < n <= 49, and the generated name Name<k> for n = 49 + k, k >= 1.
NameSupplyFallThrough ==
    LET order == EncounterOrder
    IN /\ Len(BASE_NAMES) = 23
       /\ Len(NATO_NAMES) = 26
       /\ names = Len(order)
       /\ DOMAIN aliases = Range(order)
       /\ \A n \in DOMAIN order :
             aliases[order[n]] =
                 IF n <= 23 THEN BASE_NAMES[n]
                 ELSE IF n <= 49 THEN NATO_NAMES[n - 23]
                 ELSE [text |-> "Name", n |-> n - 49]
       /\ \A i \in DOMAIN lines :
             /\ i \in DOMAIN processed
             /\ \A k \in DOMAIN lines[i] : processed[i][k] = Rewritten(lines[i][k])

\* C16 witness: with both lists handed out, HashCode=<51st value> reads Name2
\* and the 50th value, met again, still reads Name1.
NameSupplyFallThroughWitness ==
    /\ names = 51
    /\ Len(processed) = 4
    /\ processed[3] = <<InlineAlias([text |-> "Name", n |-> 2])>>
    /\ processed[4] = <<BracketAlias([text |-> "Name", n |-> 1])>>
    /\ aliases[Run(49)] = Name("Zulu")

\* C18 as claimed (alias injectivity): no two distinct values of the table hold
\* the same name, however many values have been met.
AliasInjectivity ==
    \A d1, d2 \in DOMAIN aliases : d1 # d2 => aliases[d1] # aliases[d2]

====
